---- MODULE Spec2Model ----
(***************************************************************************)
(* Payment ledger, enrollment projection and assessment engine of the      *)
(* coaching backend (Express handlers over MongoDB/Mongoose).              *)
(*                                                                         *)
(* Every HTTP request is a process, a record of the bag `req`.  A handler is*)
(* an async function: between two awaited database operations other        *)
(* requests run, so each awaited operation that reads or writes a shared   *)
(* collection is one atomic step of the model, and the synchronous code    *)
(* between two awaits belongs to the step that precedes it.  Awaited reads *)
(* of data no handler of the model writes (the Course document's           *)
(* instructor/isPublished, the actor's role) and calls of external         *)
(* collaborators (gateway, mailer) are folded into the neighbouring step.  *)
(***************************************************************************)
EXTENDS Naturals, Integers, Sequences, FiniteSets, Bags, TLC

VARIABLES
  payments,         \* Payment collection: sequence of documents, _id = index
  enrolled,         \* User.enrolledCourses of every student (a list)
  enrollmentCount,  \* Course.enrollmentCount
  tests,            \* Test collection: test id -> document
  results,          \* TestResult collection: set of documents
  now,              \* wall clock read by Test.isActive()
  maxAttemptsHist,  \* history: values Test.maxAttempts has held, per test
  users,            \* User collection: account (its email) -> document
  invites,          \* AdminInviteCode collection: code -> document
  req               \* the requests issued, in flight or answered: a bag of records

vars == <<payments, enrolled, enrollmentCount, tests, results, now,
          maxAttemptsHist, users, invites, req>>

payVars  == <<payments, enrolled, enrollmentCount>>
testVars == <<tests, results, now, maxAttemptsHist>>
userVars == <<users, invites>>

-----------------------------------------------------------------------------
(* Bounds *)

MaxReq == 3            \* number of requests issued in one behaviour
MaxNow == 1            \* the clock runs over 0..MaxNow
MaxAttemptsInit == 2   \* Test.maxAttempts of the stored test is in 1..MaxAttemptsInit

\* ids a request may name for a payment or a gateway order
Ids == 1..MaxReq

-----------------------------------------------------------------------------
(* The seeded database and a second admin: one superadmin, one published   *)
(* course taught by the first admin, two students.                        *)

Students   == {"s1", "s2"}
Admins     == {"a1", "a2"}
SuperAdmin == "sa"
Users      == Students \cup Admins \cup {SuperAdmin}

Role(u) == IF u = SuperAdmin THEN "superadmin"
           ELSE IF u \in Admins THEN "admin" ELSE "student"

\* accounts that may be registered, and the accounts the store may hold
NewUsers == {"n1", "n2"}
Accounts == Users \cup NewUsers

NoAccount == [exists |-> FALSE, role |-> "none", inviteCodeUsed |-> "none"]

Account(role, code) == [exists |-> TRUE, role |-> role, inviteCodeUsed |-> code]

\* the user store after the seed script
SeededUsers == [u \in Accounts |-> IF u \in Users THEN Account(Role(u), "none") ELSE NoAccount]

InviteCodes == {"K1"}

NoInvite == [exists |-> FALSE, email |-> "-", isUsed |-> FALSE, usedBy |-> "-",
             isActive |-> TRUE, expiresAt |-> 0]

Courses == {"c1"}

Course(c) == [instructor |-> "a1", isPublished |-> TRUE]

\* course ids a request may carry: the stored course and an unknown id
CourseIds == Courses \cup {"c0"}

-----------------------------------------------------------------------------
(* User model *)

\* userSchema.methods.hasPurchasedCourse
hasPurchasedCourse(enr, c) ==
  \E i \in DOMAIN enr : enr[i].course = c /\ enr[i].paymentStatus = "completed"

Enrollment(c, m) == [course |-> c, paymentStatus |-> "completed", paymentMethod |-> m]

\* number of entries of a student's enrolledCourses that grant course c
CompletedEntries(enr, c) ==
  Cardinality({i \in DOMAIN enr : enr[i].course = c /\ enr[i].paymentStatus = "completed"})

-----------------------------------------------------------------------------
(* Payment model *)

NoUser == "-"

\* Payment.create(...): schema defaults status 'pending', approvedBy/rejectedBy null
NewPayment(s, c, m, order) ==
  [student |-> s, course |-> c, paymentMethod |-> m, status |-> "pending",
   razorpayOrderId |-> order, razorpayPaymentId |-> 0,
   approvedBy |-> NoUser, rejectedBy |-> NoUser]

\* mutant: a failed Payment blocks a new one as a pending one does
PendingOrFailedFor(ps, s, c) ==
  {i \in DOMAIN ps : ps[i].student = s /\ ps[i].course = c
                     /\ ps[i].status \in {"pending", "failed"}}

\* Payment.findOne({student, course, status: 'pending'})
PendingFor(ps, s, c) ==
  {i \in DOMAIN ps : ps[i].student = s /\ ps[i].course = c /\ ps[i].status = "pending"}

\* Payment.findOne({razorpayOrderId, student, status: 'pending'})
PendingOrder(ps, order, s) ==
  {i \in DOMAIN ps : ps[i].razorpayOrderId = order /\ ps[i].student = s
                     /\ ps[i].status = "pending"}

\* the gateway's key and a key that is not the gateway's
KeySecret == "secret"
Keys      == {"secret", "forged"}

\* HMAC-SHA256 of "orderId|paymentId" under a key, as the digest's preimage
Hmac(key, order, rzpId) == <<key, order, rzpId>>

\* mutant: the signature is not compared
AcceptAnySignature(order, rzpId, signature) == TRUE

\* verifyPaymentSignature(orderId, paymentId, signature)
verifyPaymentSignature(order, rzpId, signature) ==
  Hmac(KeySecret, order, rzpId) = signature

\* mutant: the status guard lets a settled payment through
AnyStatus(st) == TRUE

\* the guard of PUT /:id/approve and /:id/reject on the status that was read
IsPendingStatus(st) == st = "pending"

\* mutant: every admin may settle
AnyAdminCanSettle(u, c) == TRUE

\* authorization of approve/reject: superadmin, or the course's instructor
CanSettle(u, c) == Role(u) = "superadmin" \/ Course(c).instructor = u

-----------------------------------------------------------------------------
(* Requests *)

NoDate == -1

NoTest == [exists |-> FALSE, course |-> "c0", questions |-> <<>>, totalMarks |-> 0,
           passingMarks |-> 0, duration |-> 0, isPublished |-> FALSE,
           startDate |-> NoDate, endDate |-> NoDate, maxAttempts |-> 1,
           showResults |-> TRUE, showCorrectAnswers |-> TRUE, subject |-> "none"]

\* the data of a response; an optional member is a list of at most one value
NoData == [marksObtained |-> 0, percentage |-> 0, isPassed |-> FALSE,
           answers |-> <<>>, correctAnswers |-> <<>>, questions |-> <<>>]

Idle == [kind |-> "none", pc |-> "idle", actor |-> NoUser, usnap |-> <<>>,
         course |-> "c0", pid |-> 0, tid |-> "t0", tsnap |-> NoTest,
         rzpId |-> 0, count |-> 0, hasQ |-> FALSE, resp |-> "none", data |-> NoData,
         mail |-> "none", target |-> "-", role |-> "none", code |-> "none",
         list |-> {}, history |-> {}]

\* an answered request: its kind, the response, and the payment or test and
\* the attempt number the response names
Done(q, response) == [Idle EXCEPT !.kind = q.kind, !.pc = "done", !.actor = q.actor,
                                  !.pid = q.pid, !.tid = q.tid, !.count = q.count,
                                  !.resp = response]

\* mutant: an error of the mailer reaches the handler's outer catch
MailErrorPropagates(mailOk) == IF mailOk THEN "ok" ELSE "ExternalServiceError"

\* the response after the email's try/catch: an error of the mailer is caught
\* and logged
AfterMail(mailOk) == "ok"

\* an answered request whose last step called the mailer
Mailed(q, mailOk) ==
  [Done(q, AfterMail(mailOk)) EXCEPT !.mail = IF mailOk THEN "sent" ELSE "failed"]

\* a request answered by its first step
Refused(k, response) == [Idle EXCEPT !.kind = k, !.pc = "done", !.resp = response]

\* a new request arrives, in the state its first step leaves it in
Issue(q) == /\ BagCardinality(req) < MaxReq
            /\ req' = req (+) SetToBag({q})

\* request q takes a step and becomes q2
Becomes(q, q2) == req' = (req (-) SetToBag({q})) (+) SetToBag({q2})

At(q, k, p) == q.kind = k /\ q.pc = p

\* the requests in the bag
Requests == BagToSet(req)

\* how many requests of the bag are records of the set S
CountIn(S) == BagCardinality([x \in (S \cap Requests) |-> req[x]])

Quiescent == \A q \in Requests : q.pc = "done"

-----------------------------------------------------------------------------
(* POST /api/payments/create-order and POST /api/payments/offline          *)

\* protect + requireStudent: req.user is loaded once, here
StartPurchase(k, u) ==
  /\ k \in {"createOrder", "offline"}
  /\ Issue(
        IF Role(u) = "student"
        THEN [Idle EXCEPT !.kind = k, !.pc = "check", !.actor = u, !.usnap = enrolled[u]]
        ELSE Refused(k, "Forbidden"))
  /\ UNCHANGED <<userVars, payVars, testVars>>

\* Course.findById, hasPurchasedCourse on req.user, Payment.findOne(pending),
\* and for /offline the req.file check
PurchaseCheck(q, c, hasFile) ==
  /\ q.pc = "check" /\ q.kind \in {"createOrder", "offline"}
  /\ LET u == q.actor
     IN Becomes(q,
          IF c \notin Courses \/ ~Course(c).isPublished
            THEN Refused(q.kind, "NotFound")
          ELSE IF hasPurchasedCourse(q.usnap, c)
            THEN Refused(q.kind, "Conflict")
          ELSE IF PendingFor(payments, u, c) # {}
            THEN Refused(q.kind, "Conflict")
          ELSE IF q.kind = "offline" /\ ~hasFile
            THEN Refused(q.kind, "Validation")
          ELSE [q EXCEPT !.pc = "create", !.course = c, !.usnap = <<>>])
  /\ UNCHANGED <<userVars, payVars, testVars>>

\* createOrder (gateway) then Payment.create; the gateway may fail
CreateOrderCreate(q, gatewayOk) ==
  /\ At(q, "createOrder", "create")
  /\ IF gatewayOk
     THEN /\ payments' = Append(payments,
                 NewPayment(q.actor, q.course, "online", Len(payments) + 1))
          /\ Becomes(q, [Done(q, "ok") EXCEPT !.pid = Len(payments) + 1])
     ELSE /\ payments' = payments
          /\ Becomes(q, Done(q, "ExternalServiceError"))
  /\ UNCHANGED <<userVars, enrolled, enrollmentCount, testVars>>

\* Payment.create for the offline path
OfflineCreate(q) ==
  /\ At(q, "offline", "create")
  /\ payments' = Append(payments, NewPayment(q.actor, q.course, "offline", 0))
  /\ Becomes(q, [Done(q, "ok") EXCEPT !.pid = Len(payments) + 1])
  /\ UNCHANGED <<userVars, enrolled, enrollmentCount, testVars>>

-----------------------------------------------------------------------------
(* POST /api/payments/verify                                               *)

\* protect + requireStudent, Payment.findOne({order, student, pending}),
\* verifyPaymentSignature on the request's fields
VerifyFind(u, order, rzpId, key) ==
  /\ LET found == PendingOrder(payments, order, u)
         base  == [Idle EXCEPT !.kind = "verify", !.actor = u]
     IN Issue(
          IF Role(u) # "student" THEN Refused("verify", "Forbidden")
          ELSE IF found = {} THEN Refused("verify", "NotFound")
          ELSE LET p == CHOOSE i \in found : TRUE
               IN IF verifyPaymentSignature(order, rzpId, Hmac(key, order, rzpId))
                  THEN [base EXCEPT !.pc = "saveCompleted", !.pid = p,
                                    !.course = payments[p].course, !.rzpId = rzpId]
                  ELSE [base EXCEPT !.pc = "saveFailed", !.pid = p,
                                    !.course = payments[p].course])
  /\ UNCHANGED <<userVars, payVars, testVars>>

\* payment.status = 'failed'; await payment.save()
VerifySaveFailed(q) ==
  /\ At(q, "verify", "saveFailed")
  /\ payments' = [payments EXCEPT ![q.pid].status = "failed"]
  /\ Becomes(q, Done(q, "GatewayVerificationError"))
  /\ UNCHANGED <<userVars, enrolled, enrollmentCount, testVars>>

\* payment.status = 'completed'; razorpayPaymentId = ...; await payment.save()
VerifySaveCompleted(q) ==
  /\ At(q, "verify", "saveCompleted")
  /\ payments' = [payments EXCEPT ![q.pid].status = "completed",
                                  ![q.pid].razorpayPaymentId = q.rzpId]
  /\ Becomes(q, [q EXCEPT !.pc = "enroll"])
  /\ UNCHANGED <<userVars, enrolled, enrollmentCount, testVars>>

\* User.findById; user.enrolledCourses.push(...); user.save()  (a $push)
VerifyEnroll(q) ==
  /\ At(q, "verify", "enroll")
  /\ enrolled' = [enrolled EXCEPT ![q.actor] = Append(@, Enrollment(q.course, "online"))]
  /\ Becomes(q, [q EXCEPT !.pc = "inc"])
  /\ UNCHANGED <<userVars, payments, enrollmentCount, testVars>>

\* Course.findByIdAndUpdate($inc enrollmentCount), the mail (its failure is
\* caught) and the 200 response
VerifyInc(q, mailOk) ==
  /\ At(q, "verify", "inc")
  /\ enrollmentCount' = [enrollmentCount EXCEPT ![q.course] = @ + 1]
  /\ Becomes(q, Mailed(q, mailOk))
  /\ UNCHANGED <<userVars, payments, enrolled, testVars>>

-----------------------------------------------------------------------------
(* PUT /api/payments/:id/approve and PUT /api/payments/:id/reject          *)

\* user.enrolledCourses.find(e => e.course == payment.course): first index, 0 if none
ExistingEnrollment(enr, c) ==
  IF \E i \in DOMAIN enr : enr[i].course = c
  THEN CHOOSE i \in DOMAIN enr :
         /\ enr[i].course = c
         /\ \A j \in DOMAIN enr : enr[j].course = c => i <= j
  ELSE 0

\* protect + requireAdmin, Payment.findById, the authorization check and the
\* guards on paymentMethod and status
SettleFind(k, u, p) ==
  /\ k \in {"approve", "reject"}
  /\ Issue(
        IF Role(u) \notin {"admin", "superadmin"} THEN Refused(k, "Forbidden")
        ELSE IF p \notin DOMAIN payments THEN Refused(k, "NotFound")
        ELSE IF ~CanSettle(u, payments[p].course) THEN Refused(k, "Forbidden")
        ELSE IF payments[p].paymentMethod # "offline" THEN Refused(k, "Conflict")
        ELSE IF ~IsPendingStatus(payments[p].status) THEN Refused(k, "Conflict")
        ELSE [Idle EXCEPT !.kind = k, !.pc = "save", !.actor = u, !.pid = p,
                          !.course = payments[p].course])
  /\ UNCHANGED <<userVars, payVars, testVars>>

\* paymentSchema.methods.approve: status, approvedBy, approvedAt; save()
ApproveSave(q) ==
  /\ At(q, "approve", "save")
  /\ payments' = [payments EXCEPT ![q.pid].status = "completed",
                                  ![q.pid].approvedBy = q.actor]
  /\ Becomes(q, [q EXCEPT !.pc = "findUser"])
  /\ UNCHANGED <<userVars, enrolled, enrollmentCount, testVars>>

\* User.findById(payment.student)
ApproveFindUser(q) ==
  /\ At(q, "approve", "findUser")
  /\ Becomes(q, [q EXCEPT !.pc = "enroll", !.usnap = enrolled[payments[q.pid].student]])
  /\ UNCHANGED <<userVars, payVars, testVars>>

\* no existing enrollment in the user that was read: push and save
ApproveEnrollNew(q) ==
  /\ At(q, "approve", "enroll")
  /\ ExistingEnrollment(q.usnap, q.course) = 0
  /\ enrolled' = [enrolled EXCEPT ![payments[q.pid].student] =
                     Append(@, Enrollment(q.course, "offline"))]
  /\ Becomes(q, [q EXCEPT !.pc = "inc", !.usnap = <<>>])
  /\ UNCHANGED <<userVars, payments, enrollmentCount, testVars>>

\* an existing enrollment: set its paymentStatus, save, mail, respond
ApproveEnrollExisting(q, mailOk) ==
  /\ At(q, "approve", "enroll")
  /\ ExistingEnrollment(q.usnap, q.course) # 0
  /\ LET i == ExistingEnrollment(q.usnap, q.course)
     IN enrolled' = [enrolled EXCEPT
                       ![payments[q.pid].student][i].paymentStatus = "completed"]
  /\ Becomes(q, Mailed(q, mailOk))
  /\ UNCHANGED <<userVars, payments, enrollmentCount, testVars>>

\* Course.findByIdAndUpdate($inc enrollmentCount), mail, respond
ApproveInc(q, mailOk) ==
  /\ At(q, "approve", "inc")
  /\ enrollmentCount' = [enrollmentCount EXCEPT ![q.course] = @ + 1]
  /\ Becomes(q, Mailed(q, mailOk))
  /\ UNCHANGED <<userVars, payments, enrolled, testVars>>

\* paymentSchema.methods.reject: status, rejectedBy, rejectedAt, reason; save();
\* mail, respond
RejectSave(q, mailOk) ==
  /\ At(q, "reject", "save")
  /\ payments' = [payments EXCEPT ![q.pid].status = "failed",
                                  ![q.pid].rejectedBy = q.actor]
  /\ Becomes(q, Mailed(q, mailOk))
  /\ UNCHANGED <<userVars, enrolled, enrollmentCount, testVars>>

-----------------------------------------------------------------------------
(* The payment ledger from the seeded database *)

TestIds == {"t1"}

Init ==
  /\ payments = <<>>
  /\ enrolled = [s \in Students |-> <<>>]
  /\ enrollmentCount = [c \in Courses |-> 0]
  /\ tests = [t \in TestIds |-> NoTest]
  /\ results = {}
  /\ now = 0
  /\ maxAttemptsHist = [t \in TestIds |-> {}]
  /\ users = SeededUsers
  /\ invites = [k \in InviteCodes |-> NoInvite]
  /\ req = EmptyBag

NextPay ==
  \/ \E k \in {"createOrder", "offline"}, u \in Students \cup {"a1"} : StartPurchase(k, u)
  \/ \E u \in Students \cup {"a1"}, order \in Ids, rzpId \in {1}, key \in Keys :
       VerifyFind(u, order, rzpId, key)
  \/ \E k \in {"approve", "reject"}, u \in Users \ {"s2"}, p \in Ids : SettleFind(k, u, p)
  \/ \E q \in Requests :
    \/ \E c \in CourseIds, hasFile \in BOOLEAN : PurchaseCheck(q, c, hasFile)
    \/ \E gatewayOk \in BOOLEAN : CreateOrderCreate(q, gatewayOk)
    \/ OfflineCreate(q)
    \/ VerifySaveFailed(q)
    \/ VerifySaveCompleted(q)
    \/ VerifyEnroll(q)
    \/ \E mailOk \in BOOLEAN : VerifyInc(q, mailOk)
    \/ ApproveSave(q)
    \/ ApproveFindUser(q)
    \/ ApproveEnrollNew(q)
    \/ \E mailOk \in BOOLEAN : ApproveEnrollExisting(q, mailOk)
    \/ \E mailOk \in BOOLEAN : ApproveInc(q, mailOk)
    \/ \E mailOk \in BOOLEAN : RejectSave(q, mailOk)

Spec == Init /\ [][NextPay]_vars

\* the database after one POST /offline of s1 for c1: the Payment is pending
InitPending ==
  /\ payments = << NewPayment("s1", "c1", "offline", 0) >>
  /\ enrolled = [s \in Students |-> <<>>]
  /\ enrollmentCount = [c \in Courses |-> 0]
  /\ tests = [t \in TestIds |-> NoTest]
  /\ results = {}
  /\ now = 0
  /\ maxAttemptsHist = [t \in TestIds |-> {}]
  /\ users = SeededUsers
  /\ invites = [k \in InviteCodes |-> NoInvite]
  /\ req = EmptyBag

SpecPending == InitPending /\ [][NextPay]_vars

-----------------------------------------------------------------------------
(* Test and TestResult models *)

Opt(id, correct) == [id |-> id, isCorrect |-> correct]

Question(id, marks, options) == [id |-> id, marks |-> marks, options |-> options]

\* two question lists; a replaced list carries fresh sub-document ids
QA == << Question("q1", 1, <<Opt("o1", TRUE), Opt("o2", FALSE)>>),
         Question("q2", 2, <<Opt("o3", FALSE), Opt("o4", TRUE)>>) >>
QB == << Question("q3", 1, <<Opt("o5", TRUE), Opt("o6", FALSE)>>) >>

QuestionSets == {QA, QB}

Ans(q, o) == [questionId |-> q, selectedOption |-> o]

\* the answers lists a submission may carry
AnswerLists == { <<Ans("q1", "o1"), Ans("q2", "o4")>>,
                 <<Ans("q1", "o2"), Ans("q2", "o4")>>,
                 <<Ans("q1", "o3")>>,
                 <<Ans("q1", "o1"), Ans("q9", "o1")>>,
                 <<Ans("q2", "o4"), Ans("q2", "o4")>> }

RECURSIVE SumMarks(_)
\* testSchema.pre('save'): questions.reduce((total, q) => total + q.marks, 0)
SumMarks(qs) == IF qs = <<>> THEN 0 ELSE Head(qs).marks + SumMarks(Tail(qs))

\* DocumentArray.id(id): index of the sub-document with that _id, 0 for null
IndexOfId(docs, id) ==
  IF \E i \in DOMAIN docs : docs[i].id = id
  THEN CHOOSE i \in DOMAIN docs : docs[i].id = id /\ \A j \in DOMAIN docs : docs[j].id = id => i <= j
  ELSE 0

\* mutant: a correct answer earns one mark whatever the question's marks
GradeAnswerOneMark(qs, a) ==
  LET qi == IndexOfId(qs, a.questionId)
  IN IF qi = 0 THEN [valid |-> FALSE, isCorrect |-> FALSE, marksObtained |-> 0]
     ELSE LET oi == IndexOfId(qs[qi].options, a.selectedOption)
          IN IF oi = 0 THEN [valid |-> FALSE, isCorrect |-> FALSE, marksObtained |-> 0]
             ELSE [valid |-> TRUE, isCorrect |-> qs[qi].options[oi].isCorrect,
                   marksObtained |-> IF qs[qi].options[oi].isCorrect THEN 1 ELSE 0]

\* mutant: an answer whose ids do not resolve is graded wrong instead of refused
GradeAnswerUnchecked(qs, a) ==
  LET qi == IndexOfId(qs, a.questionId)
      oi == IF qi = 0 THEN 0 ELSE IndexOfId(qs[qi].options, a.selectedOption)
  IN IF oi = 0 THEN [valid |-> TRUE, isCorrect |-> FALSE, marksObtained |-> 0]
     ELSE [valid |-> TRUE, isCorrect |-> qs[qi].options[oi].isCorrect,
           marksObtained |-> IF qs[qi].options[oi].isCorrect THEN qs[qi].marks ELSE 0]

\* one iteration of the grading loop: a graded answer, or invalid
GradeAnswer(qs, a) ==
  LET qi == IndexOfId(qs, a.questionId)
  IN IF qi = 0 THEN [valid |-> FALSE, isCorrect |-> FALSE, marksObtained |-> 0]
     ELSE LET oi == IndexOfId(qs[qi].options, a.selectedOption)
          IN IF oi = 0 THEN [valid |-> FALSE, isCorrect |-> FALSE, marksObtained |-> 0]
             ELSE [valid |-> TRUE, isCorrect |-> qs[qi].options[oi].isCorrect,
                   marksObtained |-> IF qs[qi].options[oi].isCorrect THEN qs[qi].marks ELSE 0]

RECURSIVE Grade(_, _)
\* the grading loop of POST /:id/submit over the answers list
Grade(qs, answers) ==
  IF answers = <<>> THEN [valid |-> TRUE, marksObtained |-> 0, answers |-> <<>>]
  ELSE LET g    == GradeAnswer(qs, Head(answers))
           rest == Grade(qs, Tail(answers))
       IN IF ~g.valid \/ ~rest.valid
          THEN [valid |-> FALSE, marksObtained |-> 0, answers |-> <<>>]
          ELSE [valid |-> TRUE, marksObtained |-> g.marksObtained + rest.marksObtained,
                answers |-> <<[questionId |-> Head(answers).questionId,
                               selectedOption |-> Head(answers).selectedOption,
                               isCorrect |-> g.isCorrect,
                               marksObtained |-> g.marksObtained]>> \o rest.answers]

\* mutant: the percentage truncated instead of rounded
PercentageFloor(marksObtained, totalMarks) ==
  IF totalMarks > 0 THEN (100 * marksObtained) \div totalMarks ELSE 0

\* testResultSchema.pre('save'): Math.round(marksObtained / totalMarks * 100), 0 if no marks
Percentage(marksObtained, totalMarks) ==
  IF totalMarks > 0 THEN (200 * marksObtained + totalMarks) \div (2 * totalMarks) ELSE 0

\* testSchema.methods.isActive
isActive(test, t) ==
  /\ test.isPublished
  /\ ~(test.startDate # NoDate /\ t < test.startDate)
  /\ ~(test.endDate # NoDate /\ t > test.endDate)

\* TestResult.getAttemptCount(testId, studentId)
getAttemptCount(rs, t, s) == Cardinality({x \in rs : x.test = t /\ x.student = s})

\* TestResult.countDocuments({test})
TestAttemptCount(rs, t) == Cardinality({x \in rs : x.test = t})

\* mutant: the access check without the purchase test
SubmitAccessPublishedOnly(test, enr) == test.isPublished

\* the access check of POST /:id/submit
SubmitAccess(test, enr) == test.isPublished /\ hasPurchasedCourse(enr, test.course)

\* mutant: the attempt limit check off by one
AttemptsExhaustedOffByOne(attemptCount, maxAttempts) == attemptCount > maxAttempts

\* the attempt limit check of POST /:id/submit
AttemptsExhausted(attemptCount, maxAttempts) == attemptCount >= maxAttempts

\* mutant: the index on {test, student, attemptNumber} without unique
NoUniqueIndex(rs, t, s, n) == FALSE

\* the unique index {test, student, attemptNumber}: does an insert collide
DuplicateAttempt(rs, t, s, n) ==
  \E x \in rs : x.test = t /\ x.student = s /\ x.attemptNumber = n

-----------------------------------------------------------------------------
(* POST /api/tests/:id/submit                                              *)

\* protect + requireStudent: req.user is loaded here
StartSubmit(u) ==
  /\ Issue(
        IF Role(u) = "student"
        THEN [Idle EXCEPT !.kind = "submit", !.pc = "find", !.actor = u, !.usnap = enrolled[u]]
        ELSE Refused("submit", "Forbidden"))
  /\ UNCHANGED <<userVars, payVars, testVars>>

\* Test.findById, the access check and test.isActive()
SubmitFind(q, t) ==
  /\ At(q, "submit", "find")
  /\ Becomes(q,
        IF t \notin TestIds \/ ~tests[t].exists THEN Refused("submit", "NotFound")
        ELSE IF ~SubmitAccess(tests[t], q.usnap) THEN Refused("submit", "Forbidden")
        ELSE IF ~isActive(tests[t], now) THEN Refused("submit", "NotActive")
        ELSE [q EXCEPT !.pc = "count", !.tid = t, !.tsnap = tests[t], !.usnap = <<>>])
  /\ UNCHANGED <<userVars, payVars, testVars>>

\* TestResult.getAttemptCount and the attempt limit check
SubmitCount(q) ==
  /\ At(q, "submit", "count")
  /\ LET n == getAttemptCount(results, q.tid, q.actor)
     IN Becomes(q,
          IF AttemptsExhausted(n, q.tsnap.maxAttempts)
          THEN [Done(q, "Conflict") EXCEPT !.count = n]
          ELSE [q EXCEPT !.pc = "store", !.count = n])
  /\ UNCHANGED <<userVars, payVars, testVars>>

\* Math.round((marksObtained / test.totalMarks) * 100) of the handler; every
\* stored test has totalMarks >= 1
RoutePercentage(marksObtained, totalMarks) ==
  (200 * marksObtained + totalMarks) \div (2 * totalMarks)

\* test.questions.map(q => ({questionId, correctOptions: ids of the correct options}))
CorrectAnswers(qs) ==
  [i \in DOMAIN qs |->
     [questionId |-> qs[i].id,
      correctOptions |-> {qs[i].options[j].id : j \in {k \in DOMAIN qs[i].options :
                                                         qs[i].options[k].isCorrect}}]]

\* responseData of POST /:id/submit, shaped by showResults and showCorrectAnswers
SubmitResponse(test, stored, marksObtained, percentage, isPassed) ==
  [marksObtained |-> marksObtained, percentage |-> percentage, isPassed |-> isPassed,
   answers |-> IF test.showResults THEN <<stored.answers>> ELSE <<>>,
   correctAnswers |-> IF test.showCorrectAnswers THEN <<CorrectAnswers(test.questions)>>
                      ELSE <<>>,
   questions |-> <<>>]

\* the grading loop on the test that was read, then TestResult.create with
\* attemptNumber = attemptCount + 1 under the unique index
SubmitStore(q, answers) ==
  /\ At(q, "submit", "store")
  /\ LET test == q.tsnap
         g    == Grade(test.questions, answers)
         n    == q.count + 1
         pct  == RoutePercentage(g.marksObtained, test.totalMarks)
         pass == g.marksObtained >= test.passingMarks
         doc  == [test |-> q.tid, student |-> q.actor, course |-> test.course,
                  answers |-> g.answers, totalMarks |-> test.totalMarks,
                  marksObtained |-> g.marksObtained,
                  percentage |-> Percentage(g.marksObtained, test.totalMarks),
                  isPassed |-> pass,
                  attemptNumber |-> n]
     IN IF ~g.valid
        THEN /\ results' = results
             /\ Becomes(q, Done(q, "Validation"))
        ELSE IF DuplicateAttempt(results, q.tid, q.actor, n)
        THEN /\ results' = results
             /\ Becomes(q, Done(q, "DuplicateKey"))
        ELSE /\ results' = results \cup {doc}
             /\ Becomes(q, [Done(q, "ok") EXCEPT
                               !.count = n,
                               !.data = SubmitResponse(test, doc, g.marksObtained, pct, pass)])
  /\ UNCHANGED <<userVars, payVars, tests, now, maxAttemptsHist>>

-----------------------------------------------------------------------------
(* PUT /api/tests/:id                                                      *)

Undefined == -2

NoBody == [hasQ |-> FALSE, questions |-> <<>>, duration |-> Undefined,
           maxAttempts |-> Undefined, isPublished |-> "undefined", startDate |-> Undefined,
           endDate |-> Undefined]

\* request bodies: each carries one field, or questions together with duration
UpdateBodies ==
     {[NoBody EXCEPT !.hasQ = TRUE, !.questions = QB]}
  \cup {[NoBody EXCEPT !.hasQ = TRUE, !.questions = QB, !.duration = 60]}
  \cup {[NoBody EXCEPT !.duration = 60]}
  \cup {[NoBody EXCEPT !.maxAttempts = m] : m \in 1..MaxAttemptsInit}
  \cup {[NoBody EXCEPT !.isPublished = p] : p \in {"true", "false"}}
  \cup {[NoBody EXCEPT !.startDate = 1]}
  \cup {[NoBody EXCEPT !.endDate = 0]}

\* updateData: the allowed fields the body defines, and questions if no attempt was counted
ApplyUpdate(test, body, attemptCount) ==
  [test EXCEPT
     !.duration     = IF body.duration # Undefined THEN body.duration ELSE @,
     !.maxAttempts  = IF body.maxAttempts # Undefined THEN body.maxAttempts ELSE @,
     !.isPublished  = IF body.isPublished # "undefined" THEN body.isPublished = "true" ELSE @,
     !.startDate    = IF body.startDate # Undefined THEN body.startDate ELSE @,
     !.endDate      = IF body.endDate # Undefined THEN body.endDate ELSE @,
     !.questions    = IF attemptCount = 0 /\ body.hasQ THEN body.questions ELSE @]

\* the guard on questions: the test has been attempted and the body carries questions
QuestionsLocked(attemptCount, hasQ) == attemptCount > 0 /\ hasQ

\* protect + requireAdmin, Test.findById().populate('course'), authorization
UpdateFind(u, t) ==
  /\ Issue(
        IF Role(u) \notin {"admin", "superadmin"} THEN Refused("updateTest", "Forbidden")
        ELSE IF t \notin TestIds \/ ~tests[t].exists THEN Refused("updateTest", "NotFound")
        ELSE IF ~CanSettle(u, tests[t].course) THEN Refused("updateTest", "Forbidden")
        ELSE [Idle EXCEPT !.kind = "updateTest", !.pc = "count", !.actor = u, !.tid = t])
  /\ UNCHANGED <<userVars, payVars, testVars>>

\* TestResult.countDocuments({test}) and the guard on req.body.questions
UpdateCount(q, hasQ) ==
  /\ At(q, "updateTest", "count")
  /\ LET n == TestAttemptCount(results, q.tid)
     IN Becomes(q,
          IF QuestionsLocked(n, hasQ)
          THEN [Done(q, "Conflict") EXCEPT !.hasQ = hasQ]
          ELSE [q EXCEPT !.pc = "write", !.count = n, !.hasQ = hasQ])
  /\ UNCHANGED <<userVars, payVars, testVars>>

\* Test.findByIdAndUpdate(id, updateData): no save hook runs
UpdateWrite(q, body) ==
  /\ At(q, "updateTest", "write")
  /\ body.hasQ = q.hasQ
  /\ LET t == q.tid
     IN /\ tests' = [tests EXCEPT ![t] = ApplyUpdate(@, body, q.count)]
        /\ maxAttemptsHist' = [maxAttemptsHist EXCEPT ![t] = @ \cup {tests'[t].maxAttempts}]
  /\ Becomes(q, [Done(q, "ok") EXCEPT !.hasQ = q.hasQ])
  /\ UNCHANGED <<userVars, payVars, results, now>>

\* time passes
Tick ==
  /\ now < MaxNow
  /\ now' = now + 1
  /\ UNCHANGED <<userVars, payVars, tests, results, maxAttemptsHist, req>>

-----------------------------------------------------------------------------
(* The assessment engine, from a database in which a test exists, student  *)
(* s1 is enrolled through an approved offline payment and student s2 has   *)
(* an offline payment pending                                              *)

InitTest ==
  /\ payments = << [NewPayment("s1", "c1", "offline", 0) EXCEPT
                      !.status = "completed", !.approvedBy = "a1"],
                   NewPayment("s2", "c1", "offline", 0) >>
  /\ enrolled = [s \in Students |-> IF s = "s1" THEN <<Enrollment("c1", "offline")>> ELSE <<>>]
  /\ enrollmentCount = [c \in Courses |-> 1]
  /\ \E pub \in BOOLEAN, m \in 1..MaxAttemptsInit, sd \in {NoDate} :
       tests = [t \in TestIds |->
                  [exists |-> TRUE, course |-> "c1", questions |-> QA,
                   totalMarks |-> SumMarks(QA), passingMarks |-> 2, duration |-> 30,
                   isPublished |-> pub, startDate |-> sd, endDate |-> NoDate,
                   maxAttempts |-> m, showResults |-> TRUE, showCorrectAnswers |-> TRUE,
                   subject |-> "math"]]
  /\ results = {}
  /\ now = 0
  /\ maxAttemptsHist = [t \in TestIds |-> {tests[t].maxAttempts}]
  /\ users = SeededUsers
  /\ invites = [k \in InviteCodes |-> NoInvite]
  /\ req = EmptyBag

NextTest ==
  \/ Tick
  \/ \E u \in Students : StartSubmit(u)
  \/ \E u \in {"a1"}, t \in TestIds : UpdateFind(u, t)
  \/ \E p \in DOMAIN payments : SettleFind("approve", "a1", p)
  \/ \E q \in Requests :
       \/ \E t \in TestIds : SubmitFind(q, t)
       \/ SubmitCount(q)
       \/ \E answers \in AnswerLists : SubmitStore(q, answers)
       \/ \E hasQ \in BOOLEAN : UpdateCount(q, hasQ)
       \/ \E body \in UpdateBodies : UpdateWrite(q, body)
       \/ ApproveSave(q)
       \/ ApproveFindUser(q)
       \/ ApproveEnrollNew(q)
       \/ \E mailOk \in {TRUE} : ApproveEnrollExisting(q, mailOk)
       \/ \E mailOk \in {TRUE} : ApproveInc(q, mailOk)

SpecTest == InitTest /\ [][NextTest]_vars

-----------------------------------------------------------------------------
(* GET /api/tests/results/:resultId and DELETE /api/tests/:id              *)

\* a result id that names no stored TestResult
NoResult == [test |-> "t0", student |-> NoUser, attemptNumber |-> 0]

\* the access check of GET /results/:resultId; the admin branch reads the test
ResultAccess(u, r) ==
  IF Role(u) = "superadmin" THEN TRUE
  ELSE IF Role(u) = "admin" THEN Course(tests[r.test].course).instructor = u
  ELSE r.student = u

\* result.toObject() with test populated by 'title questions showCorrectAnswers'
ResultDetail(r, test) ==
  [marksObtained |-> r.marksObtained, percentage |-> r.percentage, isPassed |-> r.isPassed,
   answers |-> <<r.answers>>, correctAnswers |-> <<>>,
   questions |-> IF test.exists THEN <<test.questions>> ELSE <<>>]

\* protect, TestResult.findById with its populate calls, the access check (an
\* admin's check dereferences the populated test) and the response
GetResult(u, r) ==
  /\ Issue(
        IF r \notin results THEN Refused("getResult", "NotFound")
        ELSE IF Role(u) = "admin" /\ ~tests[r.test].exists
          THEN Refused("getResult", "ServerError")
        ELSE IF ~ResultAccess(u, r) THEN Refused("getResult", "Forbidden")
        ELSE [Refused("getResult", "ok") EXCEPT
                !.actor = u, !.tid = r.test, !.count = r.attemptNumber,
                !.data = ResultDetail(r, tests[r.test])])
  /\ UNCHANGED <<userVars, payVars, testVars>>

\* protect + requireAdmin, Test.findById().populate('course'), authorization
DeleteFind(u, t) ==
  /\ Issue(
        IF Role(u) \notin {"admin", "superadmin"} THEN Refused("deleteTest", "Forbidden")
        ELSE IF t \notin TestIds \/ ~tests[t].exists THEN Refused("deleteTest", "NotFound")
        ELSE IF ~CanSettle(u, tests[t].course) THEN Refused("deleteTest", "Forbidden")
        ELSE [Idle EXCEPT !.kind = "deleteTest", !.pc = "results", !.actor = u, !.tid = t])
  /\ UNCHANGED <<userVars, payVars, testVars>>

\* TestResult.deleteMany({test})
DeleteResults(q) ==
  /\ At(q, "deleteTest", "results")
  /\ results' = {x \in results : x.test # q.tid}
  /\ Becomes(q, [q EXCEPT !.pc = "test"])
  /\ UNCHANGED <<userVars, payVars, tests, now, maxAttemptsHist>>

\* Test.findByIdAndDelete and the response
DeleteTest(q) ==
  /\ At(q, "deleteTest", "test")
  /\ tests' = [tests EXCEPT ![q.tid] = NoTest]
  /\ Becomes(q, Done(q, "ok"))
  /\ UNCHANGED <<userVars, payVars, results, now, maxAttemptsHist>>

-----------------------------------------------------------------------------
(* Results and their views: a published test with either setting of        *)
(* showResults and showCorrectAnswers, submissions, result views and the   *)
(* deletion of the test                                                    *)

InitResult ==
  /\ payments = << [NewPayment("s1", "c1", "offline", 0) EXCEPT
                      !.status = "completed", !.approvedBy = "a1"] >>
  /\ enrolled = [s \in Students |-> IF s = "s1" THEN <<Enrollment("c1", "offline")>> ELSE <<>>]
  /\ enrollmentCount = [c \in Courses |-> 1]
  /\ \E m \in 1..MaxAttemptsInit, sr \in BOOLEAN, sc \in BOOLEAN :
       tests = [t \in TestIds |->
                  [exists |-> TRUE, course |-> "c1", questions |-> QA,
                   totalMarks |-> SumMarks(QA), passingMarks |-> 2, duration |-> 30,
                   isPublished |-> TRUE, startDate |-> NoDate, endDate |-> NoDate,
                   maxAttempts |-> m, showResults |-> sr, showCorrectAnswers |-> sc,
                   subject |-> "math"]]
  /\ results = {}
  /\ now = 0
  /\ maxAttemptsHist = [t \in TestIds |-> {tests[t].maxAttempts}]
  /\ users = SeededUsers
  /\ invites = [k \in InviteCodes |-> NoInvite]
  /\ req = EmptyBag

NextResult ==
  \/ \E u \in Students : StartSubmit(u)
  \/ \E u \in Users, r \in results \cup {NoResult} : GetResult(u, r)
  \/ \E u \in Admins \cup {"s1"}, t \in TestIds : DeleteFind(u, t)
  \/ \E q \in Requests :
       \/ \E t \in TestIds : SubmitFind(q, t)
       \/ SubmitCount(q)
       \/ \E answers \in AnswerLists : SubmitStore(q, answers)
       \/ DeleteResults(q)
       \/ DeleteTest(q)

SpecResult == InitResult /\ [][NextResult]_vars

-----------------------------------------------------------------------------
(* POST /api/auth/register and POST /api/auth/register-admin               *)

\* User.countDocuments()
UserCount(us) == Cardinality({u \in Accounts : us[u].exists})

\* the role POST /register gives: the first user is the superadmin
RegisterRole(userCount) == IF userCount = 0 THEN "superadmin" ELSE "student"

\* adminInviteCodeSchema.methods.isValid
isValid(invite, t) == ~invite.isUsed /\ invite.isActive /\ invite.expiresAt > t

\* User.findOne({email}) of both registrations
RegisterFind(k, e) ==
  /\ k \in {"register", "registerAdmin"}
  /\ Issue(
        IF users[e].exists THEN Refused(k, "Conflict")
        ELSE [Idle EXCEPT !.kind = k, !.actor = e,
                          !.pc = IF k = "register" THEN "count" ELSE "invite"])
  /\ UNCHANGED <<payVars, testVars, userVars>>

\* User.countDocuments() and the choice of the role
RegisterCount(q) ==
  /\ At(q, "register", "count")
  /\ Becomes(q, [q EXCEPT !.pc = "create", !.count = UserCount(users),
                          !.role = RegisterRole(UserCount(users))])
  /\ UNCHANGED <<payVars, testVars, userVars>>

\* User.create under the unique index on email, the welcome mail (its failure
\* is caught) and the response
RegisterCreate(q) ==
  /\ At(q, "register", "create")
  /\ IF users[q.actor].exists
     THEN /\ users' = users
          /\ Becomes(q, Done(q, "DuplicateKey"))
     ELSE /\ users' = [users EXCEPT ![q.actor] = Account(q.role, "none")]
          /\ Becomes(q, [Done(q, "ok") EXCEPT !.role = q.role])
  /\ UNCHANGED <<payVars, testVars, invites>>

\* AdminInviteCode.findOne({code}), invite.isValid() and the email of the invite
InviteFind(q, code) ==
  /\ At(q, "registerAdmin", "invite")
  /\ Becomes(q,
        IF code \notin InviteCodes \/ ~invites[code].exists
          THEN Refused("registerAdmin", "Validation")
        ELSE IF ~isValid(invites[code], now) THEN Refused("registerAdmin", "Validation")
        ELSE IF invites[code].email # "-" /\ invites[code].email # q.actor
          THEN Refused("registerAdmin", "Validation")
        ELSE [q EXCEPT !.pc = "create", !.code = code])
  /\ UNCHANGED <<payVars, testVars, userVars>>

\* User.create({role: 'admin', inviteCodeUsed}) under the unique index on email
AdminCreate(q) ==
  /\ At(q, "registerAdmin", "create")
  /\ IF users[q.actor].exists
     THEN /\ users' = users
          /\ Becomes(q, Done(q, "DuplicateKey"))
     ELSE /\ users' = [users EXCEPT ![q.actor] = Account("admin", q.code)]
          /\ Becomes(q, [q EXCEPT !.pc = "mark"])
  /\ UNCHANGED <<payVars, testVars, invites>>

\* invite.markAsUsed(user._id): isUsed, usedBy, usedAt; save(); welcome mail
\* and the response
MarkUsed(q) ==
  /\ At(q, "registerAdmin", "mark")
  /\ invites' = [invites EXCEPT ![q.code].isUsed = TRUE, ![q.code].usedBy = q.actor]
  /\ Becomes(q, [Done(q, "ok") EXCEPT !.code = q.code])
  /\ UNCHANGED <<payVars, testVars, users>>

-----------------------------------------------------------------------------
(* PUT /api/users/:id and DELETE /api/users/:id                            *)

\* protect (User.findById of the token's user) + requireSuperAdmin
StartManage(k, a) ==
  /\ k \in {"updateUser", "deleteUser"}
  /\ Issue(
        IF ~users[a].exists THEN Refused(k, "Unauthorized")
        ELSE IF users[a].role # "superadmin" THEN Refused(k, "Forbidden")
        ELSE [Idle EXCEPT !.kind = k, !.pc = "find", !.actor = a])
  /\ UNCHANGED <<payVars, testVars, userVars>>

\* User.findById(id) and the guard on a superadmin's role; the body sets role
UserUpdateFind(q, id, role) ==
  /\ At(q, "updateUser", "find")
  /\ Becomes(q,
        IF ~users[id].exists THEN Refused("updateUser", "NotFound")
        ELSE IF users[id].role = "superadmin" /\ role # "superadmin"
          THEN Refused("updateUser", "Conflict")
        ELSE [q EXCEPT !.pc = "write", !.target = id, !.role = role])
  /\ UNCHANGED <<payVars, testVars, userVars>>

\* User.findByIdAndUpdate(id, fieldsToUpdate): nothing is written if the user is gone
UserUpdateWrite(q) ==
  /\ At(q, "updateUser", "write")
  /\ users' = IF users[q.target].exists
              THEN [users EXCEPT ![q.target].role = q.role]
              ELSE users
  /\ Becomes(q, [Done(q, "ok") EXCEPT !.target = q.target, !.role = q.role])
  /\ UNCHANGED <<payVars, testVars, invites>>

\* User.findById(id) and the guard on deleting the superadmin
UserDeleteFind(q, id) ==
  /\ At(q, "deleteUser", "find")
  /\ Becomes(q,
        IF ~users[id].exists THEN Refused("deleteUser", "NotFound")
        ELSE IF users[id].role = "superadmin" THEN Refused("deleteUser", "Conflict")
        ELSE [q EXCEPT !.pc = "delete", !.target = id])
  /\ UNCHANGED <<payVars, testVars, userVars>>

\* User.findByIdAndDelete(id)
UserDelete(q) ==
  /\ At(q, "deleteUser", "delete")
  /\ users' = [users EXCEPT ![q.target] = NoAccount]
  /\ Becomes(q, [Done(q, "ok") EXCEPT !.target = q.target])
  /\ UNCHANGED <<payVars, testVars, invites>>

-----------------------------------------------------------------------------
(* The user store: either empty, or seeded and holding an invite code the  *)
(* superadmin created, for any email or for one email                     *)

InitUsers ==
  /\ payments = <<>>
  /\ enrolled = [s \in Students |-> <<>>]
  /\ enrollmentCount = [c \in Courses |-> 0]
  /\ tests = [t \in TestIds |-> NoTest]
  /\ results = {}
  /\ now = 0
  /\ maxAttemptsHist = [t \in TestIds |-> {}]
  /\ \/ /\ users = [u \in Accounts |-> NoAccount]
        /\ invites = [k \in InviteCodes |-> NoInvite]
     \/ /\ users = SeededUsers
        /\ \E e \in {"-", "n1"}, x \in {0, MaxNow + 1} :
             invites = [k \in InviteCodes |->
                          [NoInvite EXCEPT !.exists = TRUE, !.email = e, !.expiresAt = x]]
  /\ req = EmptyBag

NextUsers ==
  \/ \E k \in {"register", "registerAdmin"}, e \in NewUsers : RegisterFind(k, e)
  \/ \E k \in {"updateUser", "deleteUser"}, a \in NewUsers \cup {SuperAdmin} : StartManage(k, a)
  \/ \E q \in Requests :
       \/ RegisterCount(q)
       \/ RegisterCreate(q)
       \/ \E code \in InviteCodes \cup {"K0"} : InviteFind(q, code)
       \/ AdminCreate(q)
       \/ MarkUsed(q)
       \/ \E id \in NewUsers \cup {SuperAdmin, "s1"}, role \in {"student", "superadmin"} :
            UserUpdateFind(q, id, role)
       \/ UserUpdateWrite(q)
       \/ \E id \in NewUsers \cup {SuperAdmin, "s1"} : UserDeleteFind(q, id)
       \/ UserDelete(q)

SpecUsers == InitUsers /\ [][NextUsers]_vars

-----------------------------------------------------------------------------
(* GET /api/tests and GET /api/payments/history                            *)

\* the courses of an instructor: Course.find({instructor})
CoursesOf(u) == {c \in Courses : Course(c).instructor = u}

\* the courses of the completed entries of enrolledCourses
PurchasedCourseIds(enr) ==
  {enr[i].course : i \in {j \in DOMAIN enr : enr[j].paymentStatus = "completed"}}

\* a query condition: no condition on the field, or a set of values
NoCondition == [any |-> TRUE, in |-> {}]

In(S) == [any |-> FALSE, in |-> S]

Matches(cond, v) == cond.any \/ v \in cond.in

\* the role's query of GET /api/tests, then the courseId, subject and
\* published filters assigned over it; "" and 'all' are no filter
TestQuery(role, u, enr, courseId, subject, published) ==
  LET base == IF role = "student"
                THEN [course |-> In(PurchasedCourseIds(enr)), isPublished |-> In({TRUE})]
              ELSE IF role = "admin"
                THEN [course |-> In(CoursesOf(u)), isPublished |-> NoCondition]
              ELSE [course |-> NoCondition, isPublished |-> NoCondition]
  IN [course      |-> IF courseId # "" THEN In({courseId}) ELSE base.course,
      subject     |-> IF subject # "" THEN In({subject}) ELSE NoCondition,
      isPublished |-> IF published # "all" THEN In({published = "true"}) ELSE base.isPublished]

\* Test.find(query)
FindTests(query) ==
  {t \in TestIds : /\ tests[t].exists
                   /\ Matches(query.course, tests[t].course)
                   /\ Matches(query.subject, tests[t].subject)
                   /\ Matches(query.isPublished, tests[t].isPublished)}

\* protect: req.user is loaded here
StartList(u) ==
  /\ Issue([Idle EXCEPT !.kind = "listTests", !.pc = "find", !.actor = u,
                        !.usnap = IF u \in Students THEN enrolled[u] ELSE <<>>])
  /\ UNCHANGED <<userVars, payVars, testVars>>

\* the query, Test.find and the response (countDocuments gives the total)
ListFind(q, courseId, subject, published) ==
  /\ At(q, "listTests", "find")
  /\ Becomes(q, [Done(q, "ok") EXCEPT
                   !.list = FindTests(TestQuery(Role(q.actor), q.actor, q.usnap,
                                                courseId, subject, published))])
  /\ UNCHANGED <<userVars, payVars, testVars>>

\* the role's query of GET /api/payments/history, then the filters
HistoryQuery(role, u, status, paymentMethod, courseId) ==
  LET base == IF role = "student" THEN [student |-> In({u}), course |-> NoCondition]
              ELSE IF role = "admin" THEN [student |-> NoCondition, course |-> In(CoursesOf(u))]
              ELSE [student |-> NoCondition, course |-> NoCondition]
  IN [student       |-> base.student,
      status        |-> IF status # "all" THEN In({status}) ELSE NoCondition,
      paymentMethod |-> IF paymentMethod # "all" THEN In({paymentMethod}) ELSE NoCondition,
      course        |-> IF courseId # "" THEN In({courseId}) ELSE base.course]

\* Payment.find(query)
FindPayments(query) ==
  {i \in DOMAIN payments : /\ Matches(query.student, payments[i].student)
                           /\ Matches(query.status, payments[i].status)
                           /\ Matches(query.paymentMethod, payments[i].paymentMethod)
                           /\ Matches(query.course, payments[i].course)}

\* protect, the query, Payment.find and the response
History(u, status, paymentMethod, courseId) ==
  /\ Issue([Refused("history", "ok") EXCEPT
              !.actor = u,
              !.history = FindPayments(HistoryQuery(Role(u), u, status, paymentMethod, courseId))])
  /\ UNCHANGED <<userVars, payVars, testVars>>

-----------------------------------------------------------------------------
(* The lists, over the database of InitTest, with the approval of the      *)
(* pending payment                                                         *)

NextLists ==
  \/ \E u \in Users : StartList(u)
  \/ \E u \in Users, status \in {"all", "pending"}, paymentMethod \in {"all", "online"},
        courseId \in {"", "c1"} : History(u, status, paymentMethod, courseId)
  \/ \E p \in DOMAIN payments : SettleFind("approve", "a1", p)
  \/ \E q \in Requests :
       \/ \E courseId \in {"", "c1"}, subject \in {"", "math", "physics"},
             published \in {"all", "true", "false"} :
            ListFind(q, courseId, subject, published)
       \/ ApproveSave(q)
       \/ ApproveFindUser(q)
       \/ ApproveEnrollNew(q)
       \/ \E mailOk \in {TRUE} : ApproveEnrollExisting(q, mailOk)
       \/ \E mailOk \in {TRUE} : ApproveInc(q, mailOk)

SpecLists == InitTest /\ [][NextLists]_vars

-----------------------------------------------------------------------------
(* Claims about the payment ledger and the enrollment projection (Spec)    *)

\* C1: for every (student, course) at most one Payment has status pending,
\* whatever the interleaving of create-order and offline requests.
OnePendingPaymentPerPair ==
  \A s \in Students, c \in Courses : Cardinality(PendingFor(payments, s, c)) <= 1

\* the approve requests answered with success for payment p
ApprovedOk(p) == {q \in Requests : q.kind = "approve" /\ q.pc = "done"
                                   /\ q.resp = "ok" /\ q.pid = p}

\* C2: of the approve calls on one Payment at most one reports success; any
\* other observes Conflict.
ApproveSucceedsOnce ==
  \A p \in DOMAIN payments : CountIn(ApprovedOk(p)) <= 1

\* C3: once a Payment's status is completed or failed no step changes it,
\* except completed -> refunded.
TerminalStatusImmutable ==
  [][\A i \in DOMAIN payments :
        payments[i].status \in {"completed", "failed"} =>
          \/ payments'[i].status = payments[i].status
          \/ payments[i].status = "completed" /\ payments'[i].status = "refunded"]_vars

\* C4: when no request is in flight, every completed Payment has exactly one
\* entry with paymentStatus completed for its course in its student's
\* enrolledCourses.
OneEnrollmentPerCompletedPayment ==
  Quiescent =>
    \A i \in DOMAIN payments :
      payments[i].status = "completed" =>
        CompletedEntries(enrolled[payments[i].student], payments[i].course) = 1

\* C5: when no request is in flight, Course.enrollmentCount is the number of
\* students holding a completed Enrollment for the course.
EnrollmentCountMatches ==
  Quiescent =>
    \A c \in Courses :
      enrollmentCount[c] = Cardinality({s \in Students : hasPurchasedCourse(enrolled[s], c)})

\* the step answers a new request of kind k in its first step with response r
AnsweredAtOnce(k, r) == req' = req (+) SetToBag({Refused(k, r)})

\* the step adds request q to the requests
Added(q) == CopiesIn(q, req') > CopiesIn(q, req)

\* the step is taken by request q
Stepped(q) == CopiesIn(q, req') < CopiesIn(q, req)

\* the Payments of student u for gateway order `order` that are completed or failed
TerminalOrder(ps, order, u) ==
  {i \in DOMAIN ps : ps[i].razorpayOrderId = order /\ ps[i].student = u
                     /\ ps[i].status \in {"completed", "failed"}}

\* C11: a verify call for a Payment that is already completed or failed
\* changes nothing and is answered with the terminal state, not an error.
VerifyIdempotent ==
  [][\A u \in Students, order \in Ids, rzpId \in {1}, key \in Keys :
        (VerifyFind(u, order, rzpId, key) /\ TerminalOrder(payments, order, u) # {})
          => /\ UNCHANGED payVars
             /\ \E q \in BagToSet(req') :
                  Added(q) /\ q.kind = "verify" /\ q.pc = "done" /\ q.resp = "ok"]_vars

\* C12: a verify call on a pending Payment with a signature that does not
\* match takes the failure path; that path sets the Payment failed, answers
\* GatewayVerificationError and leaves enrolledCourses and enrollmentCount
\* alone; and no step of a reject request touches enrolledCourses or
\* enrollmentCount.
BadSignatureFailsPayment ==
  [][/\ \A u \in Students, order \in Ids, rzpId \in {1}, key \in Keys \ {KeySecret} :
          (VerifyFind(u, order, rzpId, key) /\ PendingOrder(payments, order, u) # {})
            => /\ UNCHANGED payVars
               /\ \E q \in BagToSet(req') :
                    /\ Added(q) /\ At(q, "verify", "saveFailed")
                    /\ q.actor = u /\ payments[q.pid].razorpayOrderId = order
     /\ \A q \in Requests :
          (At(q, "verify", "saveFailed") /\ Stepped(q))
            => /\ payments'[q.pid].status = "failed"
               /\ Added(Done(q, "GatewayVerificationError"))
               /\ enrolled' = enrolled /\ enrollmentCount' = enrollmentCount
     /\ \A q \in Requests \cup BagToSet(req') :
          (q.kind = "reject" /\ (Added(q) \/ Stepped(q)))
            => enrolled' = enrolled /\ enrollmentCount' = enrollmentCount]_vars

\* C12 witness: a verify call was answered GatewayVerificationError, its
\* Payment is failed, its student has no enrollment and the counter is 0
BadSignatureFailed ==
  \E q \in Requests : /\ q.kind = "verify" /\ q.resp = "GatewayVerificationError"
                       /\ payments[q.pid].status = "failed"
                       /\ enrolled[q.actor] = <<>>
                       /\ enrollmentCount[payments[q.pid].course] = 0

\* the actors the capability model lets settle a Payment of course c
MaySettle(u, c) == u = SuperAdmin \/ (Role(u) = "admin" /\ Course(c).instructor = u)

\* C13: an authorized approve or reject call on a Payment that it reads as
\* not offline or not pending is answered Conflict and changes nothing; on an
\* offline pending Payment it is let through.
SettleGuardsConflict ==
  [][\A k \in {"approve", "reject"}, u \in Users, p \in DOMAIN payments :
        (SettleFind(k, u, p) /\ MaySettle(u, payments[p].course))
          => /\ UNCHANGED payVars
             /\ IF payments[p].paymentMethod = "offline" /\ payments[p].status = "pending"
                THEN \E q \in BagToSet(req') :
                       Added(q) /\ At(q, k, "save") /\ q.pid = p /\ q.actor = u
                ELSE AnsweredAtOnce(k, "Conflict")]_vars

\* C13 witness: the only Payment is offline and completed by an approval,
\* and a reject call on it was answered Conflict
SettledPaymentConflict ==
  /\ Len(payments) = 1
  /\ payments[1].paymentMethod = "offline" /\ payments[1].status = "completed"
  /\ \E q \in Requests : q.kind = "reject" /\ q.resp = "Conflict"

\* C14: an approve or reject call on an existing Payment by an actor who is
\* neither the superadmin nor the instructor of the Payment's course is
\* answered Forbidden in a step that changes nothing; an authorized actor is
\* never answered Forbidden; every approve or reject request in flight is an
\* authorized actor's.
SettleAuthorization ==
  [][/\ \A k \in {"approve", "reject"}, u \in Users, p \in DOMAIN payments :
          SettleFind(k, u, p)
            => IF MaySettle(u, payments[p].course)
               THEN ~AnsweredAtOnce(k, "Forbidden")
               ELSE AnsweredAtOnce(k, "Forbidden") /\ UNCHANGED payVars
     /\ \A q \in BagToSet(req') :
          (q.kind \in {"approve", "reject"} /\ q.pc # "done")
            => MaySettle(q.actor, payments[q.pid].course)]_vars

\* C14 witness: an approve call was answered Forbidden while the offline
\* Payment is still pending and nobody is enrolled
ForbiddenSettleLeftPending ==
  /\ \E q \in Requests : q.kind = "approve" /\ q.resp = "Forbidden"
  /\ \E i \in DOMAIN payments : payments[i].paymentMethod = "offline"
                                /\ payments[i].status = "pending"
  /\ \A s \in Students : enrolled[s] = <<>>

-----------------------------------------------------------------------------
(* Claims about the assessment engine (SpecTest)                           *)

\* the answered submissions of student s for test t that passed the access
\* and active checks and carried valid answers, by response
Submitted(t, s, responses) ==
  {q \in Requests : q.kind = "submit" /\ q.pc = "done" /\ q.tid = t /\ q.actor = s
                    /\ q.resp \in responses}

\* Test.maxAttempts of t has not been changed
MaxAttemptsUnchanged(t) == maxAttemptsHist[t] = {tests[t].maxAttempts}

\* C6: when maxAttempts + k submissions of one student for one test have all
\* been answered, exactly maxAttempts Attempts are stored and exactly k
\* submissions failed (a rejected insert counted among the failures).
SubmissionsFillQuota ==
  \A t \in TestIds, s \in Students :
    (Quiescent /\ tests[t].exists /\ MaxAttemptsUnchanged(t)
       /\ CountIn(Submitted(t, s, {"ok", "Conflict", "DuplicateKey"})) >= tests[t].maxAttempts)
    => /\ getAttemptCount(results, t, s) = tests[t].maxAttempts
       /\ CountIn(Submitted(t, s, {"Conflict", "DuplicateKey"})) =
            CountIn(Submitted(t, s, {"ok", "Conflict", "DuplicateKey"})) - tests[t].maxAttempts

\* the attempt numbers stored for (t, s)
AttemptNumbers(t, s) == {x.attemptNumber : x \in {y \in results : y.test = t /\ y.student = s}}

NoAttemptBeyondQuota ==
  [][\A t \in TestIds, s \in Students :
        MaxAttemptsUnchanged(t) =>
          /\ getAttemptCount(results, t, s) <= tests[t].maxAttempts
          /\ getAttemptCount(results, t, s) = tests[t].maxAttempts =>
               getAttemptCount(results', t, s) = getAttemptCount(results, t, s)]_vars

\* C8 witness: the quota is used up and a further submission was answered
\* Conflict after reading the full attempt count
QuotaExhaustedConflict ==
  \E t \in TestIds, s \in Students :
    /\ MaxAttemptsUnchanged(t)
    /\ getAttemptCount(results, t, s) = tests[t].maxAttempts
    /\ \E q \in Submitted(t, s, {"Conflict"}) : q.count = tests[t].maxAttempts

\* C9: a step stores an Attempt only for a submit request whose test was
\* published when the request read it and whose student holds, in the
\* database, a completed Enrollment for the test's course.
AttemptOnlyWithAccess ==
  [][\A x \in results' \ results :
        \E q \in Requests :
          /\ At(q, "submit", "store")
          /\ q.actor = x.student /\ q.tid = x.test /\ q.tsnap.course = x.course
          /\ q.tsnap.isPublished
          /\ hasPurchasedCourse(enrolled[x.student], x.course)]_vars

\* C9 witness: the student whose payment was pending holds an Attempt, and a
\* submission of a student was refused for lack of access
EnrolledLaterThenAttempted ==
  /\ \E x \in results : x.student = "s2"
  /\ \E q \in Requests : q.kind = "submit" /\ q.resp = "Forbidden"

\* C10: once an Attempt exists for a test, no step changes the test's questions.
QuestionsFrozenAfterAttempt ==
  [][\A t \in TestIds :
        TestAttemptCount(results, t) > 0 => tests'[t].questions = tests[t].questions]_vars

-----------------------------------------------------------------------------
(* Claims about grading (SpecTest)                                         *)

\* the marks an answer earns: the marks of the question it names if the
\* option it selects is a correct option of that question, else 0
AwardedMarks(qs, a) ==
  LET hit == {i \in DOMAIN qs :
                /\ qs[i].id = a.questionId
                /\ \E j \in DOMAIN qs[i].options :
                     qs[i].options[j].id = a.selectedOption /\ qs[i].options[j].isCorrect}
  IN IF hit = {} THEN 0 ELSE qs[CHOOSE i \in hit : TRUE].marks

RECURSIVE SumAwarded(_, _)
\* the sum of the marks the answers of a list earn
SumAwarded(qs, as) ==
  IF as = <<>> THEN 0 ELSE AwardedMarks(qs, Head(as)) + SumAwarded(qs, Tail(as))

\* the question and option ids an Attempt's answers name
Selections(x) == [i \in DOMAIN x.answers |->
                    <<x.answers[i].questionId, x.answers[i].selectedOption>>]

\* the Attempts a step of submit request q stores
StoredBy(q) == IF At(q, "submit", "store") /\ Stepped(q) THEN results' \ results ELSE {}

IsRoundedPercentage(p, marksObtained, totalMarks) ==
  IF totalMarks = 0 THEN p = 0
  ELSE /\ 2 * p * totalMarks <= 200 * marksObtained + totalMarks
       /\ 200 * marksObtained + totalMarks < 2 * (p + 1) * totalMarks

InactiveSubmitForbidden ==
  [][\A q \in Requests, t \in TestIds :
        (SubmitFind(q, t) /\ tests[t].exists)
          => /\ isActive(tests[t], now) =
                  (/\ tests[t].isPublished
                   /\ (tests[t].startDate = NoDate \/ now >= tests[t].startDate)
                   /\ (tests[t].endDate = NoDate \/ now <= tests[t].endDate))
             /\ ~isActive(tests[t], now)
                  => Added(Refused("submit", "Forbidden")) /\ results' = results]_vars

\* an answer of the list names a question that is not in qs, or an option
\* that is not an option of the question it names
HasUnknownId(qs, as) ==
  \E i \in DOMAIN as :
    ~\E k \in DOMAIN qs :
       /\ qs[k].id = as[i].questionId
       /\ \E j \in DOMAIN qs[k].options : qs[k].options[j].id = as[i].selectedOption

\* C18: a submission whose answers list names an unknown question or option
\* id, at any position, is answered Validation and stores no Attempt.
UnknownIdsRejected ==
  [][\A q \in Requests, answers \in AnswerLists :
        (SubmitStore(q, answers) /\ HasUnknownId(q.tsnap.questions, answers))
          => results' = results /\ Added(Done(q, "Validation"))]_vars

\* C18 witness: a submission was answered Validation for a pair whose one
\* stored Attempt still has number 1
ValidationLeftAttempts ==
  \E q \in Requests :
    /\ q.kind = "submit" /\ q.resp = "Validation"
    /\ getAttemptCount(results, q.tid, q.actor) = 1
    /\ AttemptNumbers(q.tid, q.actor) = {1}

-----------------------------------------------------------------------------
(* Claims about result views and stored Attempts (SpecResult)              *)

\* no option of the questions a response carries has an isCorrect flag
NoOptionFlags(questions) ==
  \A w \in DOMAIN questions : \A i \in DOMAIN questions[w] :
    \A j \in DOMAIN questions[w][i].options :
      "isCorrect" \notin DOMAIN questions[w][i].options[j]

\* C19: a response sent to a student for a test with showCorrectAnswers off,
\* from submit or from the result detail, carries neither the correct option
\* ids nor questions whose options have isCorrect flags; a submit response
\* for a test with showResults off carries no graded answers.
StudentsSeeNoDisabledCorrectness ==
  \A q \in Requests :
    (/\ q.pc = "done" /\ q.resp = "ok" /\ q.kind \in {"submit", "getResult"}
     /\ Role(q.actor) = "student" /\ tests[q.tid].exists)
      => /\ ~tests[q.tid].showCorrectAnswers
              => q.data.correctAnswers = <<>> /\ NoOptionFlags(q.data.questions)
         /\ (q.kind = "submit" /\ ~tests[q.tid].showResults) => q.data.answers = <<>>

\* C20: no step removes or changes a stored Attempt.
AttemptsAppendOnly == [][results \subseteq results']_vars

-----------------------------------------------------------------------------
(* Further claims about the payment ledger (Spec)                          *)

\* the Payments of student s for course c with status st
PaymentsWith(ps, s, c, st) ==
  {i \in DOMAIN ps : ps[i].student = s /\ ps[i].course = c /\ ps[i].status = st}

\* C21: every student who holds a completed Enrollment for a course has a
\* completed Payment for that course.
EnrollmentBackedByPayment ==
  \A s \in Students, c \in Courses :
    hasPurchasedCourse(enrolled[s], c) => PaymentsWith(payments, s, c, "completed") # {}

\* C22: whether or not the mailer throws, the last step of verify, approve
\* and reject answers success, and its effect on the Payment, enrolledCourses
\* and enrollmentCount is the one of the step with a working mailer.
NotifierFailureHarmless ==
  [][\A q \in Requests, mailOk \in BOOLEAN :
        LET answered == Added([Done(q, "ok") EXCEPT
                                 !.mail = IF mailOk THEN "sent" ELSE "failed"])
            inc      == [enrollmentCount EXCEPT ![q.course] = @ + 1]
        IN /\ VerifyInc(q, mailOk)
                => answered /\ payVars' = <<payments, enrolled, inc>>
           /\ ApproveInc(q, mailOk)
                => answered /\ payVars' = <<payments, enrolled, inc>>
           /\ ApproveEnrollExisting(q, mailOk)
                => /\ answered
                   /\ payments' = payments /\ enrollmentCount' = enrollmentCount
                   /\ hasPurchasedCourse(enrolled'[payments[q.pid].student], q.course)
           /\ RejectSave(q, mailOk)
                => /\ answered
                   /\ payments'[q.pid].status = "failed"
                   /\ enrolled' = enrolled /\ enrollmentCount' = enrollmentCount]_vars

\* C22 witness: an approve was answered success although the mailer threw;
\* its Payment is completed, its student enrolled and counted
MailFailedStillSettled ==
  \E q \in Requests :
    /\ q.kind = "approve" /\ q.mail = "failed" /\ q.resp = "ok"
    /\ payments[q.pid].status = "completed"
    /\ hasPurchasedCourse(enrolled[payments[q.pid].student], payments[q.pid].course)
    /\ enrollmentCount["c1"] = 1

\* the step appends one pending Payment of method m for request q's pair
CreatesPending(q, m) ==
  /\ Len(payments') = Len(payments) + 1
  /\ SubSeq(payments', 1, Len(payments)) = payments
  /\ LET p == payments'[Len(payments')]
     IN p.student = q.actor /\ p.course = q.course /\ p.status = "pending"
        /\ p.paymentMethod = m

\* C23: a purchase request of a student whose Payments for the course are
\* all failed and who holds no completed Enrollment passes the checks and,
\* the gateway answering, creates a new pending Payment and is answered
\* success; a purchase request that finds a pending Payment of its pair is
\* answered Conflict and changes nothing.
FailedPaymentAllowsRetry ==
  [][/\ \A q \in Requests, c \in Courses, hasFile \in BOOLEAN :
          PurchaseCheck(q, c, hasFile)
            => /\ UNCHANGED payVars
               /\ (/\ PaymentsWith(payments, q.actor, c, "failed") # {}
                   /\ PaymentsWith(payments, q.actor, c, "pending") = {}
                   /\ ~hasPurchasedCourse(enrolled[q.actor], c)
                   /\ (q.kind = "offline" => hasFile))
                    => \E d \in BagToSet(req') :
                         Added(d) /\ At(d, q.kind, "create") /\ d.actor = q.actor
                         /\ d.course = c
               /\ PaymentsWith(payments, q.actor, c, "pending") # {}
                    => Added(Refused(q.kind, "Conflict"))
     /\ \A q \in Requests :
          /\ CreateOrderCreate(q, TRUE)
               => CreatesPending(q, "online") /\ \E d \in BagToSet(req') :
                    Added(d) /\ d.resp = "ok" /\ d.pid = Len(payments')
          /\ OfflineCreate(q)
               => CreatesPending(q, "offline") /\ \E d \in BagToSet(req') :
                    Added(d) /\ d.resp = "ok" /\ d.pid = Len(payments')]_vars

\* C23 witness: the first Payment of a pair is failed, a second one is
\* pending, and the request that created it was answered success
RetriedAfterFailure ==
  /\ Len(payments) = 2
  /\ payments[1].status = "failed" /\ payments[2].status = "pending"
  /\ payments[1].student = payments[2].student /\ payments[1].course = payments[2].course
  /\ enrolled[payments[1].student] = <<>>
  /\ \E q \in Requests : q.kind \in {"createOrder", "offline"} /\ q.resp = "ok" /\ q.pid = 2

-----------------------------------------------------------------------------
(* Further claims about the assessment engine (SpecTest)                   *)

\* C24: the totalMarks of every stored test is the sum of the marks of its
\* current questions.
TotalMarksIsSumOfMarks ==
  \A t \in TestIds : tests[t].exists => tests[t].totalMarks = SumMarks(tests[t].questions)

-----------------------------------------------------------------------------
(* Claims about the user store (SpecUsers)                                 *)

\* the admin accounts created with invite code k
AdminsOfCode(k) ==
  {u \in Accounts : users[u].exists /\ users[u].role = "admin"
                    /\ users[u].inviteCodeUsed = k}

\* C25: at most one admin account is ever created with one invite code.
InviteCodeSingleUse ==
  \A k \in InviteCodes : Cardinality(AdminsOfCode(k)) <= 1

\* the accounts with role superadmin
SuperAdmins == {u \in Accounts : users[u].exists /\ users[u].role = "superadmin"}

\* C30: at most one account has role superadmin.
SuperAdminSingleton == Cardinality(SuperAdmins) <= 1

\* C28: no (student, course) pair has two Payments with status completed.
OneCompletedPaymentPerPair ==
  \A s \in Students, c \in Courses :
    Cardinality({i \in DOMAIN payments : /\ payments[i].student = s
                                          /\ payments[i].course = c
                                          /\ payments[i].status = "completed"}) <= 1

\* C29: every stored Attempt has 0 <= marksObtained <= totalMarks and
\* 0 <= percentage <= 100, and no question is graded twice in its answers.
AttemptWithinTotal ==
  \A x \in results :
    /\ 0 <= x.marksObtained /\ x.marksObtained <= x.totalMarks
    /\ 0 <= x.percentage /\ x.percentage <= 100
    /\ \A i, j \in DOMAIN x.answers :
         x.answers[i].questionId = x.answers[j].questionId => i = j

-----------------------------------------------------------------------------
(* Claims about the lists (SpecLists)                                      *)

\* C26: every test listed to a student is published and belongs to a course
\* for which the student holds a completed Enrollment.
StudentListsOnlyAccessibleTests ==
  \A q \in Requests :
    (q.kind = "listTests" /\ q.pc = "done" /\ Role(q.actor) = "student")
      => \A t \in q.list : /\ tests[t].isPublished
                           /\ hasPurchasedCourse(enrolled[q.actor], tests[t].course)

\* C27: every Payment in the history sent to an admin is of a course the
\* admin instructs, and every Payment in the history sent to a student is the
\* student's own.
HistoryOnlyOwnPayments ==
  \A q \in Requests :
    (q.kind = "history" /\ q.pc = "done")
      => \A i \in q.history :
           /\ Role(q.actor) = "admin" => Course(payments[i].course).instructor = q.actor
           /\ Role(q.actor) = "student" => payments[i].student = q.actor

=============================================================================
